---------------------------- MODULE Spec2Model ----------------------------
(***************************************************************************)
(* The taboo card game of rg35xx-rs (src/src/taboo.rs): the deck with its  *)
(* reshuffle and refill, the turn phases ReadyingUp / Playing / TurnEnded, *)
(* the rotation CurrentTurn::next, and the menu that starts and ends a     *)
(* game.  One tick of the frame loop calls TabooApp::update once with the  *)
(* input snapshot of that tick.                                            *)
(***************************************************************************)
EXTENDS Integers, Sequences, FiniteSets, TLC

(***************************************************************************)
(* Bounds of the model.                                                    *)
(***************************************************************************)
\* Number of distinct words left in the pool by GameState::new.
PoolSize == 2
\* Largest number of players the menu is driven to (the code has no limit).
MaxPlayers == 3
\* Largest number of draw_card calls in one game.
MaxDraws == 3
\* Largest number of buttons that turn "just pressed" on the same tick.
MaxPressed == 2
\* Largest party count the rotation is iterated for on its own.
MaxN == 5
\* Number of full cycles the rotation is iterated for on its own.
MaxCycles == 2
\* Largest number of lines of a word list that is loaded on its own.
MaxLines == 3
\* Largest number of presses of the button the device loop is run for.
MaxPresses == 3

(***************************************************************************)
(* Program constants.                                                      *)
(***************************************************************************)
\* `60.0 - start_time.elapsed()`: the length of a turn in seconds.
TurnSeconds == 60
\* `if *players < 2 { *players = 2 }` and the default `players: 2`.
MinPlayers == 2

VARIABLES
    app,      \* the TabooApp value: Menu {players, teams} or InGame {game, turn, current_turn}
    draws,    \* history: the draw_card calls of the current game
    refills,  \* history: how many of them took the refill branch
    tN,       \* rotation on its own: the party count num_players
    tCur,     \* rotation on its own: the CurrentTurn value
    tSeen,    \* rotation on its own: the turns held so far, oldest first
    load,     \* word list on its own: the progress of the load in GameState::new
    clock,    \* turn on the clock: whole seconds since start_time of the turn
    dev       \* device loop on its own: one button, its events and its ButtonState

vars == <<app, draws, refills, tN, tCur, tSeen, load, clock, dev>>

(***************************************************************************)
(* Helpers on sequences.                                                   *)
(***************************************************************************)
Last(s) == s[Len(s)]

Front(s) == SubSeq(s, 1, Len(s) - 1)

\* Every order `shuffle` can leave a vector in.
Shuffles(s) ==
    { [i \in 1..Len(s) |-> s[p[i]]] : p \in Permutations(1..Len(s)) }

(***************************************************************************)
(* Input: app.rs.                                                          *)
(***************************************************************************)
Button ==
    {"PovDown", "PovUp", "PovLeft", "PovRight", "BumperL", "BumperR",
     "MenuL", "MenuR", "ActionH", "ActionV", "ActionB", "ActionA"}

\* An input snapshot, reduced to the set of buttons whose just_pressed is true.
Inputs == { s \in SUBSET Button : Cardinality(s) <= MaxPressed }

just_pressed(input, button) == button \in input

\* What start_time.elapsed() can be against the length of a turn.
Elapsed == {TurnSeconds - 1, TurnSeconds, TurnSeconds + 1}

(***************************************************************************)
(* The word list: the first half of GameState::new.  A text is a sequence  *)
(* of characters; str::split and str::trim are computed on it.             *)
(***************************************************************************)
Whitespace == {" ", "\t", "\r"}

contains(s, c) == \E i \in 1..Len(s) : s[i] = c

RECURSIVE split(_, _)
\* str::split: the pieces between the separators, one more than there are
\* separators, so never none.
split(s, sep) ==
    IF ~contains(s, sep)
    THEN <<s>>
    ELSE LET i == CHOOSE i \in 1..Len(s) :
                     s[i] = sep /\ \A j \in 1..(i - 1) : s[j] # sep
         IN  <<SubSeq(s, 1, i - 1)>> \o split(SubSeq(s, i + 1, Len(s)), sep)

RECURSIVE trim(_)
\* str::trim: without the whitespace at both ends.
trim(s) ==
    IF s # << >> /\ Head(s) \in Whitespace THEN trim(Tail(s))
    ELSE IF s # << >> /\ Last(s) \in Whitespace THEN trim(Front(s))
    ELSE s

\* The lines of WORDS, trimmed, the empty ones filtered out, each split at the
\* commas into trimmed fields.
FieldsOf(text) ==
    LET raw      == split(text, "\n")
        trimmed  == [i \in 1..Len(raw) |-> trim(raw[i])]
        NotEmpty(line) == line # << >>
        kept     == SelectSeq(trimmed, NotEmpty)
        Fields(line) == LET f == split(line, ",")
                        IN  [j \in 1..Len(f) |-> trim(f[j])]
    IN  [i \in 1..Len(kept) |-> Fields(kept[i])]

\* `words.next().unwrap()` panics when the line has no field at all.
UnwrapPanics(fields) == Len(fields) = 0

\* Card { word, taboo }: the first field and the fields after it.
Card(fields) == [word |-> Head(fields), taboo |-> Tail(fields)]

\* The Vec<Card> collected from WORDS.
Cards(text) ==
    LET fields == FieldsOf(text)
    IN  [i \in 1..Len(fields) |-> Card(fields[i])]

multi_word(word) == contains(word, " ") \/ contains(word, "-")

\* HashMap::insert of a key that may be present already.
Insert(cards, card) ==
    [w \in DOMAIN cards \cup {card.word} |->
        IF w = card.word THEN card ELSE cards[w]]

\* DedupOne that inserts without looking for the key first.
DedupOneLastWins(cards, card) ==
    IF multi_word(card.word)
    THEN [cards |-> cards, said |-> <<"multi-word", card.word>>]
    ELSE [cards |-> Insert(cards, card), said |-> << >>]

\* DedupOne that looks for a space only.
DedupOneSpaceOnly(cards, card) ==
    IF card.word \in DOMAIN cards
    THEN [cards |-> cards, said |-> <<"duplicate", card.word>>]
    ELSE IF contains(card.word, " ")
    THEN [cards |-> cards, said |-> <<"multi-word", card.word>>]
    ELSE [cards |-> Insert(cards, card), said |-> << >>]

\* One pass of `for card in lines.drain(..)`: the map after it and what was
\* printed.
DedupOne(cards, card) ==
    IF card.word \in DOMAIN cards
    THEN [cards |-> cards, said |-> <<"duplicate", card.word>>]
    ELSE IF multi_word(card.word)
    THEN [cards |-> cards, said |-> <<"multi-word", card.word>>]
    ELSE [cards |-> Insert(cards, card), said |-> << >>]

\* `cards.into_values().collect()` then shuffle: the values in any order.
IntoValues(cards) ==
    LET keys == DOMAIN cards
    IN  { [i \in 1..Cardinality(keys) |-> cards[k[i]]] :
          k \in { f \in [1..Cardinality(keys) -> keys] :
                  \A i, j \in 1..Cardinality(keys) : i # j => f[i] # f[j] } }

(***************************************************************************)
(* Cards and GameState.                                                    *)
(***************************************************************************)
\* A card is identified by its word; the pool holds PoolSize distinct words.
Words == 1..PoolSize

NoCard == 0

CardResult == {"Won", "Discarded", "Timeout"}

won(card_result) == card_result = "Won"

discarded(card_result) == card_result = "Discarded"

\* The pool GameState::new is left with by the load, one card per word.
Pool == [i \in 1..PoolSize |-> i]

\* GameStateNew with a won pile too many: `0..=num_players`.
GameStateNewExtraPile(num_players, teams) ==
    { [num_players |-> num_players,
       teams       |-> teams,
       deck        |-> lines,
       discards    |-> << >>,
       won_cards   |-> [i \in 0..num_players |-> << >>],
       all_cards   |-> Pool] :
      lines \in Shuffles(Pool) }

\* GameStateNew with a deck that lacks the last card of the shuffled pool.
GameStateNewShortDeck(num_players, teams) ==
    { [num_players |-> num_players,
       teams       |-> teams,
       deck        |-> Front(lines),
       discards    |-> << >>,
       won_cards   |-> [i \in 0..(num_players - 1) |-> << >>],
       all_cards   |-> Pool] :
      lines \in Shuffles(Pool) }

\* GameState::new after the load: the pool shuffled, the deck a copy of it.
\* all_cards is only ever read by draw_card, which shuffles its copy, so the
\* order `lines` has in all_cards is never observed: it is kept as Pool.
GameStateNew(num_players, teams) ==
    { [num_players |-> num_players,
       teams       |-> teams,
       deck        |-> lines,
       discards    |-> << >>,
       won_cards   |-> [i \in 0..(num_players - 1) |-> << >>],
       all_cards   |-> Pool] :
      lines \in Shuffles(Pool) }

\* deck_size that leaves the discards out.
DeckSizeOfDeck(game) == Len(game.deck)

deck_size(game) == Len(game.deck) + Len(game.discards)

\* DrawSwap copying the discards into the deck instead of swapping.
DrawSwapKeep(game) ==
    IF game.deck = << >>
    THEN { [game EXCEPT !.deck = d] : d \in Shuffles(game.discards) }
    ELSE {game}

\* DrawSwap that loses the first of the shuffled discards.
DrawSwapLosesOne(game) ==
    IF game.deck = << >>
    THEN { [game EXCEPT !.deck = SubSeq(d, 2, Len(d)), !.discards = << >>] :
           d \in Shuffles(game.discards) }
    ELSE {game}

\* draw_card, step 1: an empty deck takes the shuffled discards.
DrawSwap(game) ==
    IF game.deck = << >>
    THEN { [game EXCEPT !.deck = d, !.discards = << >>] :
           d \in Shuffles(game.discards) }
    ELSE {game}

\* DrawRefill that leaves an empty deck empty.
DrawRefillNothing(game) == { [game |-> game, refilled |-> 0] }

\* draw_card, step 2: a deck still empty is refilled from all_cards.
DrawRefill(game) ==
    IF game.deck = << >>
    THEN { [game |-> [game EXCEPT !.deck = d], refilled |-> 1] :
           d \in Shuffles(game.all_cards) }
    ELSE { [game |-> game, refilled |-> 0] }

\* DrawPop with last() for pop(): the card drawn stays in the deck.
DrawPopKeep(r) ==
    IF r.game.deck = << >>
    THEN [game |-> r.game, card |-> NoCard, refilled |-> r.refilled, ok |-> FALSE]
    ELSE [game |-> r.game,
          card |-> Last(r.game.deck), refilled |-> r.refilled, ok |-> TRUE]

\* draw_card, step 3: pop().unwrap(); ok is FALSE where unwrap panics.
DrawPop(r) ==
    IF r.game.deck = << >>
    THEN [game |-> r.game, card |-> NoCard, refilled |-> r.refilled, ok |-> FALSE]
    ELSE [game |-> [r.game EXCEPT !.deck = Front(r.game.deck)],
          card |-> Last(r.game.deck), refilled |-> r.refilled, ok |-> TRUE]

\* Every outcome of one draw_card call.
draw_card(game) ==
    UNION { { DrawPop(r) : r \in DrawRefill(g) } : g \in DrawSwap(game) }

(***************************************************************************)
(* CurrentTurn.                                                            *)
(***************************************************************************)
Team(team) == [tag |-> "Team", team |-> team]

Player(asker, askee) == [tag |-> "Player", asker |-> asker, askee |-> askee]

\* NextTeam with `>` for `>=`: the last team is followed by one more index.
NextTeamOffByOne(team, num_players) ==
    IF team + 1 > num_players THEN 0 ELSE team + 1

\* Self::Team(team)
NextTeam(team, num_players) ==
    IF team + 1 >= num_players THEN 0 ELSE team + 1

\* NextPlayer without the gap step: when the asker wraps, the askee just moves on.
NextPlayerSameGap(asker, askee, num_players) ==
    LET asker1 == asker + 1
        askee1 == askee + 1
        askee2 == IF askee1 >= num_players THEN 0 ELSE askee1
    IN  IF asker1 >= num_players THEN Player(0, askee2) ELSE Player(asker1, askee2)

\* NextPlayer without the `delta + 1 == num_players` test: the last gap is
\* followed by the gap num_players.
NextPlayerNoRestart(asker, askee, num_players) ==
    LET delta  == IF askee < asker
                  THEN askee + num_players - asker
                  ELSE askee - asker
        asker1 == asker + 1
        askee1 == askee + 1
        askee2 == IF askee1 >= num_players THEN 0 ELSE askee1
    IN  IF asker1 >= num_players
        THEN Player(0, delta + 1)
        ELSE Player(asker1, askee2)

\* NextPlayer restarting the cycle at askee 0 instead of askee 1.
NextPlayerRestartAtZero(asker, askee, num_players) ==
    LET delta  == IF askee < asker
                  THEN askee + num_players - asker
                  ELSE askee - asker
        asker1 == asker + 1
        askee1 == askee + 1
        askee2 == IF askee1 >= num_players THEN 0 ELSE askee1
    IN  IF asker1 >= num_players
        THEN Player(0, IF delta + 1 = num_players THEN 0 ELSE delta + 1)
        ELSE Player(asker1, askee2)

\* NextPlayer taking the distance from askee up to asker as delta when the
\* askee is the lower one.
NextPlayerDistance(asker, askee, num_players) ==
    LET delta  == IF askee < asker
                  THEN asker - askee
                  ELSE askee - asker
        asker1 == asker + 1
        askee1 == askee + 1
        askee2 == IF askee1 >= num_players THEN 0 ELSE askee1
    IN  IF asker1 >= num_players
        THEN Player(0, IF delta + 1 = num_players THEN 1 ELSE delta + 1)
        ELSE Player(asker1, askee2)

\* Self::Player { asker, askee }
NextPlayer(asker, askee, num_players) ==
    LET delta  == IF askee < asker
                  THEN askee + num_players - asker
                  ELSE askee - asker
        asker1 == asker + 1
        askee1 == askee + 1
        askee2 == IF askee1 >= num_players THEN 0 ELSE askee1
    IN  IF asker1 >= num_players
        THEN Player(0, IF delta + 1 = num_players THEN 1 ELSE delta + 1)
        ELSE Player(asker1, askee2)

\* CurrentTurn::next
next(current_turn, num_players) ==
    IF current_turn.tag = "Team"
    THEN Team(NextTeam(current_turn.team, num_players))
    ELSE NextPlayer(current_turn.asker, current_turn.askee, num_players)

\* The turn a game starts with (Menu, MenuR).
FirstTurn(teams) == IF teams THEN Team(0) ELSE Player(0, 1)

(***************************************************************************)
(* TurnState and TabooApp.                                                 *)
(***************************************************************************)
ReadyingUp == [tag |-> "ReadyingUp"]

Playing(card, results) ==
    [tag |-> "Playing", card |-> card, results |-> results]

TurnEnded(results, showing) ==
    [tag |-> "TurnEnded", results |-> results, showing |-> showing]

Menu(players, teams) == [tag |-> "Menu", players |-> players, teams |-> teams]

InGame(game, turn, current_turn) ==
    [tag |-> "InGame", game |-> game, turn |-> turn, current_turn |-> current_turn]

\* The process after a panic (pop().unwrap() on an empty deck).
Panicked == [tag |-> "Panicked"]

\* impl Default for TabooApp
Default == Menu(MinPlayers, TRUE)

\* One result of a tick: the new TabooApp value, and the draw_card calls and
\* the refills the tick made.
Outcome(a, drawn, refilled) == [app |-> a, drawn |-> drawn, refilled |-> refilled]


(***************************************************************************)
(* TabooApp::update, one operator per arm of its match.  Each gives the    *)
(* set of outcomes of the tick: the shuffles are the only choice in it.    *)
(***************************************************************************)
\* UpdateMenu without `if *players < 2 { *players = 2 }`.
UpdateMenuNoFloor(a, input) ==
    LET players1 == IF just_pressed(input, "PovUp")
                    THEN a.players + 1 ELSE a.players
        players2 == IF just_pressed(input, "PovDown")
                    THEN players1 - 1 ELSE players1
        teams1   == IF just_pressed(input, "MenuL") THEN ~a.teams ELSE a.teams
    IN  IF just_pressed(input, "MenuR")
        THEN { Outcome(InGame(game, ReadyingUp, FirstTurn(teams1)), 0, 0) :
               game \in GameStateNew(players2, teams1) }
        ELSE { Outcome(Menu(players2, teams1), 0, 0) }

\* Self::Menu: PovUp, PovDown, MenuL and MenuR, tested in that order.
UpdateMenu(a, input) ==
    LET players1 == IF just_pressed(input, "PovUp")
                    THEN a.players + 1 ELSE a.players
        players2 == IF just_pressed(input, "PovDown")
                    THEN (IF players1 - 1 < MinPlayers
                          THEN MinPlayers ELSE players1 - 1)
                    ELSE players1
        teams1   == IF just_pressed(input, "MenuL") THEN ~a.teams ELSE a.teams
    IN  IF just_pressed(input, "MenuR")
        THEN { Outcome(InGame(game, ReadyingUp, FirstTurn(teams1)), 0, 0) :
               game \in GameStateNew(players2, teams1) }
        ELSE { Outcome(Menu(players2, teams1), 0, 0) }

\* UpdateReadyingUp drawing twice for the first card and dropping the first
\* of the two.
UpdateReadyingUpDrawTwice(a, input) ==
    LET twice ==
            UNION { { [game |-> d2.game, card |-> d2.card,
                       refilled |-> d1.refilled + d2.refilled,
                       ok |-> d1.ok /\ d2.ok] : d2 \in draw_card(d1.game) } :
                    d1 \in draw_card(a.game) }
        afterA ==
            IF just_pressed(input, "ActionA")
            THEN { IF d.ok
                   THEN Outcome(InGame(d.game, Playing(d.card, << >>),
                                       a.current_turn), 1, d.refilled)
                   ELSE Outcome(Panicked, 1, d.refilled) :
                   d \in twice }
            ELSE { Outcome(a, 0, 0) }
    IN  IF just_pressed(input, "ActionB")
        THEN { IF o.app.tag = "InGame"
               THEN Outcome(Menu(o.app.game.num_players, o.app.game.teams),
                            o.drawn, o.refilled)
               ELSE o : o \in afterA }
        ELSE afterA

\* UpdateReadyingUp in which ActionB returns to the menu of TabooApp::default().
UpdateReadyingUpToDefault(a, input) ==
    LET afterA ==
            IF just_pressed(input, "ActionA")
            THEN { IF d.ok
                   THEN Outcome(InGame(d.game, Playing(d.card, << >>),
                                       a.current_turn), 1, d.refilled)
                   ELSE Outcome(Panicked, 1, d.refilled) :
                   d \in draw_card(a.game) }
            ELSE { Outcome(a, 0, 0) }
    IN  IF just_pressed(input, "ActionB")
        THEN { IF o.app.tag = "InGame"
               THEN Outcome(Default, o.drawn, o.refilled)
               ELSE o : o \in afterA }
        ELSE afterA

\* UpdateReadyingUp with `else if` for the test of ActionB.
UpdateReadyingUpElseIf(a, input) ==
    IF just_pressed(input, "ActionA")
    THEN { IF d.ok
           THEN Outcome(InGame(d.game, Playing(d.card, << >>),
                               a.current_turn), 1, d.refilled)
           ELSE Outcome(Panicked, 1, d.refilled) :
           d \in draw_card(a.game) }
    ELSE IF just_pressed(input, "ActionB")
    THEN { Outcome(Menu(a.game.num_players, a.game.teams), 0, 0) }
    ELSE { Outcome(a, 0, 0) }

\* TurnState::ReadyingUp: ActionA starts the turn, then ActionB ends the game.
UpdateReadyingUp(a, input) ==
    LET afterA ==
            IF just_pressed(input, "ActionA")
            THEN { IF d.ok
                   THEN Outcome(InGame(d.game, Playing(d.card, << >>),
                                       a.current_turn), 1, d.refilled)
                   ELSE Outcome(Panicked, 1, d.refilled) :
                   d \in draw_card(a.game) }
            ELSE { Outcome(a, 0, 0) }
    IN  IF just_pressed(input, "ActionB")
        THEN { IF o.app.tag = "InGame"
               THEN Outcome(Menu(o.app.game.num_players, o.app.game.teams),
                            o.drawn, o.refilled)
               ELSE o : o \in afterA }
        ELSE afterA

Remaining(elapsed) == TurnSeconds - elapsed

\* EndTurn without the push of the card in play.
EndTurnNoTimeout(a) ==
    InGame(a.game, TurnEnded(a.turn.results, Len(a.turn.results) - 1),
           a.current_turn)

\* EndTurn recording the card in play as Discarded.
EndTurnAsDiscarded(a) ==
    LET cards2 == Append(a.turn.results, <<a.turn.card, "Discarded">>)
    IN  InGame(a.game, TurnEnded(cards2, Len(cards2) - 1), a.current_turn)

\* EndTurn that advances the turn already.
EndTurnAdvance(a) ==
    LET cards2 == Append(a.turn.results, <<a.turn.card, "Timeout">>)
    IN  InGame(a.game, TurnEnded(cards2, Len(cards2) - 1),
               next(a.current_turn, a.game.num_players))

\* The end of the turn: the card in play is recorded as Timeout.
EndTurn(a) ==
    LET cards2 == Append(a.turn.results, <<a.turn.card, "Timeout">>)
    IN  InGame(a.game, TurnEnded(cards2, Len(cards2) - 1), a.current_turn)

\* Resolve without the swap: the card drawn is pushed to the results and the
\* old card stays in play.
ResolveNoSwap(a, card_result) ==
    { IF d.ok
      THEN Outcome(InGame(d.game,
                          Playing(a.turn.card,
                                  Append(a.turn.results,
                                         <<d.card, card_result>>)),
                          a.current_turn), 1, d.refilled)
      ELSE Outcome(Panicked, 1, d.refilled) :
      d \in draw_card(a.game) }

\* Resolve without the push: the old card is gone.
ResolveForgets(a, card_result) ==
    { IF d.ok
      THEN Outcome(InGame(d.game, Playing(d.card, a.turn.results),
                          a.current_turn), 1, d.refilled)
      ELSE Outcome(Panicked, 1, d.refilled) :
      d \in draw_card(a.game) }

\* Resolve recording the old card as Timeout whatever the button.
ResolveAsTimeout(a, card_result) ==
    { IF d.ok
      THEN Outcome(InGame(d.game,
                          Playing(d.card,
                                  Append(a.turn.results,
                                         <<a.turn.card, "Timeout">>)),
                          a.current_turn), 1, d.refilled)
      ELSE Outcome(Panicked, 1, d.refilled) :
      d \in draw_card(a.game) }

\* "Guessed the card" and "Give up/fail the card": draw, swap, push.
Resolve(a, card_result) ==
    { IF d.ok
      THEN Outcome(InGame(d.game,
                          Playing(d.card,
                                  Append(a.turn.results,
                                         <<a.turn.card, card_result>>)),
                          a.current_turn), 1, d.refilled)
      ELSE Outcome(Panicked, 1, d.refilled) :
      d \in draw_card(a.game) }

\* UpdatePlaying that tests ActionA before the end of the turn.
UpdatePlayingCorrectFirst(a, input, elapsed) ==
    IF just_pressed(input, "ActionA")
    THEN Resolve(a, "Won")
    ELSE IF Remaining(elapsed) < 0 \/ just_pressed(input, "MenuR")
    THEN { Outcome(EndTurn(a), 0, 0) }
    ELSE IF just_pressed(input, "ActionB")
    THEN Resolve(a, "Discarded")
    ELSE { Outcome(a, 0, 0) }

\* UpdatePlaying that ends the turn at `remaining <= 0.0`.
UpdatePlayingEndsAtZero(a, input, elapsed) ==
    IF Remaining(elapsed) <= 0 \/ just_pressed(input, "MenuR")
    THEN { Outcome(EndTurn(a), 0, 0) }
    ELSE IF just_pressed(input, "ActionA")
    THEN Resolve(a, "Won")
    ELSE IF just_pressed(input, "ActionB")
    THEN Resolve(a, "Discarded")
    ELSE { Outcome(a, 0, 0) }

\* UpdatePlaying without the test of the time that remains.
UpdatePlayingNoExpiry(a, input, elapsed) ==
    IF just_pressed(input, "MenuR")
    THEN { Outcome(EndTurn(a), 0, 0) }
    ELSE IF just_pressed(input, "ActionA")
    THEN Resolve(a, "Won")
    ELSE IF just_pressed(input, "ActionB")
    THEN Resolve(a, "Discarded")
    ELSE { Outcome(a, 0, 0) }

\* TurnState::Playing
UpdatePlaying(a, input, elapsed) ==
    IF Remaining(elapsed) < 0 \/ just_pressed(input, "MenuR")
    THEN { Outcome(EndTurn(a), 0, 0) }
    ELSE IF just_pressed(input, "ActionA")
    THEN Resolve(a, "Won")
    ELSE IF just_pressed(input, "ActionB")
    THEN Resolve(a, "Discarded")
    ELSE { Outcome(a, 0, 0) }

\* CreditOne crediting only the asker in a Player turn.
CreditOneAskerOnly(game, card, card_result, current_turn) ==
    IF won(card_result)
    THEN IF current_turn.tag = "Team"
         THEN [game EXCEPT !.won_cards[current_turn.team] = Append(@, card)]
         ELSE [game EXCEPT !.won_cards[current_turn.asker] = Append(@, card)]
    ELSE [game EXCEPT !.discards = Append(@, card)]

\* CreditOne with `won_cards.push(vec![card])` for a card a team won.
CreditOneNewPile(game, card, card_result, current_turn) ==
    IF won(card_result)
    THEN IF current_turn.tag = "Team"
         THEN [game EXCEPT !.won_cards =
                  [i \in 0..Cardinality(DOMAIN @) |->
                      IF i \in DOMAIN @ THEN @[i] ELSE <<card>>]]
         ELSE LET g1 == [game EXCEPT
                           !.won_cards[current_turn.asker] = Append(@, card)]
              IN  [g1 EXCEPT !.won_cards[current_turn.askee] = Append(@, card)]
    ELSE [game EXCEPT !.discards = Append(@, card)]

\* CreditOne that starts the pile of the party over with the card won.
CreditOneReplacesPile(game, card, card_result, current_turn) ==
    IF won(card_result)
    THEN IF current_turn.tag = "Team"
         THEN [game EXCEPT !.won_cards[current_turn.team] = <<card>>]
         ELSE LET g1 == [game EXCEPT !.won_cards[current_turn.asker] = <<card>>]
              IN  [g1 EXCEPT !.won_cards[current_turn.askee] = <<card>>]
    ELSE [game EXCEPT !.discards = Append(@, card)]

\* CreditOne putting a card that was not won under the discards, not on top.
CreditOneDiscardFirst(game, card, card_result, current_turn) ==
    IF won(card_result)
    THEN IF current_turn.tag = "Team"
         THEN [game EXCEPT !.won_cards[current_turn.team] = Append(@, card)]
         ELSE LET g1 == [game EXCEPT
                           !.won_cards[current_turn.asker] = Append(@, card)]
              IN  [g1 EXCEPT !.won_cards[current_turn.askee] = Append(@, card)]
    ELSE [game EXCEPT !.discards = <<card>> \o @]

\* One pass of the loop over results.drain(..): the card goes to the won
\* pile(s) of the turn, or to the discards.
CreditOne(game, card, card_result, current_turn) ==
    IF won(card_result)
    THEN IF current_turn.tag = "Team"
         THEN [game EXCEPT !.won_cards[current_turn.team] = Append(@, card)]
         ELSE LET g1 == [game EXCEPT
                           !.won_cards[current_turn.asker] = Append(@, card)]
              IN  [g1 EXCEPT !.won_cards[current_turn.askee] = Append(@, card)]
    ELSE [game EXCEPT !.discards = Append(@, card)]

RECURSIVE CreditFrom(_, _, _, _)
\* The loop over results.drain(..), from entry i on.
CreditFrom(game, results, i, current_turn) ==
    IF i > Len(results)
    THEN game
    ELSE CreditFrom(CreditOne(game, results[i][1], results[i][2], current_turn),
                    results, i + 1, current_turn)

\* Whether the loop indexes won_cards out of range (a panic).
CreditPanics(game, results, current_turn) ==
    /\ \E i \in 1..Len(results) : won(results[i][2])
    /\ IF current_turn.tag = "Team"
       THEN current_turn.team \notin DOMAIN game.won_cards
       ELSE \/ current_turn.asker \notin DOMAIN game.won_cards
            \/ current_turn.askee \notin DOMAIN game.won_cards

\* ShowNext wrapping around to the first entry.
ShowNextWrap(showing, len) ==
    IF showing + 1 >= len THEN 0 ELSE showing + 1

\* PovRight: one entry on, held at the last one.
ShowNext(showing, len) ==
    IF showing + 1 >= len THEN len - 1 ELSE showing + 1

\* PovLeft: saturating_sub(1).
ShowPrevious(showing) ==
    IF showing = 0 THEN 0 ELSE showing - 1

\* Confirm advancing the turn before it credits the results.
ConfirmAdvanceFirst(a) ==
    IF CreditPanics(a.game, a.turn.results, a.current_turn)
    THEN Panicked
    ELSE InGame(CreditFrom(a.game, a.turn.results, 1,
                           next(a.current_turn, a.game.num_players)),
                ReadyingUp,
                next(a.current_turn, a.game.num_players))

\* ActionA in TurnEnded: credit the results, advance the turn, ready up.
Confirm(a) ==
    IF CreditPanics(a.game, a.turn.results, a.current_turn)
    THEN Panicked
    ELSE InGame(CreditFrom(a.game, a.turn.results, 1, a.current_turn),
                ReadyingUp,
                next(a.current_turn, a.game.num_players))

\* UpdateTurnEnded in which ActionB drops the results and readies up again.
UpdateTurnEndedCancel(a, input) ==
    LET showing1 == IF just_pressed(input, "PovRight")
                    THEN ShowNext(a.turn.showing, Len(a.turn.results))
                    ELSE a.turn.showing
        showing2 == IF just_pressed(input, "PovLeft")
                    THEN ShowPrevious(showing1) ELSE showing1
    IN  IF just_pressed(input, "ActionA")
        THEN { Outcome(Confirm(a), 0, 0) }
        ELSE IF just_pressed(input, "ActionB")
        THEN { Outcome(InGame(a.game, ReadyingUp, a.current_turn), 0, 0) }
        ELSE { Outcome([a EXCEPT !.turn.showing = showing2], 0, 0) }

\* UpdateTurnEnded in which ActionB ends the game as it does in ReadyingUp.
UpdateTurnEndedQuit(a, input) ==
    LET showing1 == IF just_pressed(input, "PovRight")
                    THEN ShowNext(a.turn.showing, Len(a.turn.results))
                    ELSE a.turn.showing
        showing2 == IF just_pressed(input, "PovLeft")
                    THEN ShowPrevious(showing1) ELSE showing1
    IN  IF just_pressed(input, "ActionA")
        THEN { Outcome(Confirm(a), 0, 0) }
        ELSE IF just_pressed(input, "ActionB")
        THEN { Outcome(Menu(a.game.num_players, a.game.teams), 0, 0) }
        ELSE { Outcome([a EXCEPT !.turn.showing = showing2], 0, 0) }

\* TurnState::TurnEnded: PovRight, PovLeft and ActionA, tested in that order.
UpdateTurnEnded(a, input) ==
    LET showing1 == IF just_pressed(input, "PovRight")
                    THEN ShowNext(a.turn.showing, Len(a.turn.results))
                    ELSE a.turn.showing
        showing2 == IF just_pressed(input, "PovLeft")
                    THEN ShowPrevious(showing1) ELSE showing1
    IN  IF just_pressed(input, "ActionA")
        THEN { Outcome(Confirm(a), 0, 0) }
        ELSE { Outcome([a EXCEPT !.turn.showing = showing2], 0, 0) }

(***************************************************************************)
(* The game driven tick by tick.                                           *)
(***************************************************************************)
NoRotation == tN = MinPlayers /\ tCur = Team(0) /\ tSeen = << >>

\* The load in GameState::new at the point `pc`, of the word list `text`.
Loading(pc, text) ==
    [pc |-> pc, text |-> text, lines |-> << >>, cards |-> << >>,
     said |-> << >>, pool |-> << >>]

NoLoad == load = Loading("idle", << >>)

NoClock == clock = 0

\* `ButtonState { pressed, previous }`.
ButtonState(pressed, previous) == [pressed |-> pressed, previous |-> previous]

\* ButtonState::just_pressed: `self.pressed && !self.previous`.
ButtonState_just_pressed(state) == state.pressed /\ ~state.previous

\* The device loop at the point `pc` with nothing pressed and nothing sent:
\* `held` is the physical button, `button_rx` the events sent and not yet
\* received, `input_state` the ButtonState of the button (Input::default()),
\* `presses` the presses made and `fired` the ticks that saw just_pressed.
Device(pc) ==
    [pc |-> pc, held |-> FALSE, button_rx |-> << >>,
     input_state |-> ButtonState(FALSE, FALSE), presses |-> 0, fired |-> 0]

NoDevice == dev = Device("off")

Init ==
    /\ app = Default
    /\ draws = 0
    /\ refills = 0
    /\ NoRotation
    /\ NoLoad
    /\ NoClock
    /\ NoDevice

\* The bounds of the model: the menu stays within MaxPlayers, a game within
\* MaxDraws calls of draw_card.
WithinBounds(o) ==
    /\ o.app.tag = "Menu" => o.app.players <= MaxPlayers
    /\ o.app.tag = "InGame" => o.app.game.num_players <= MaxPlayers
    /\ draws + o.drawn <= MaxDraws

Tick(o) ==
    /\ WithinBounds(o)
    /\ app' = o.app
    /\ draws' = IF o.app.tag = "InGame" THEN draws + o.drawn ELSE 0
    /\ refills' = IF o.app.tag = "InGame" THEN refills + o.refilled ELSE 0
    /\ UNCHANGED <<tN, tCur, tSeen, load, clock, dev>>

MenuUpdate ==
    /\ app.tag = "Menu"
    /\ \E input \in Inputs : \E o \in UpdateMenu(app, input) : Tick(o)

ReadyingUpUpdate ==
    /\ app.tag = "InGame"
    /\ app.turn.tag = "ReadyingUp"
    /\ \E input \in Inputs : \E o \in UpdateReadyingUp(app, input) : Tick(o)

PlayingUpdate ==
    /\ app.tag = "InGame"
    /\ app.turn.tag = "Playing"
    /\ \E input \in Inputs : \E elapsed \in Elapsed :
          \E o \in UpdatePlaying(app, input, elapsed) : Tick(o)

TurnEndedUpdate ==
    /\ app.tag = "InGame"
    /\ app.turn.tag = "TurnEnded"
    /\ \E input \in Inputs : \E o \in UpdateTurnEnded(app, input) : Tick(o)

Next ==
    \/ MenuUpdate
    \/ ReadyingUpUpdate
    \/ PlayingUpdate
    \/ TurnEndedUpdate

Spec == Init /\ [][Next]_vars

(***************************************************************************)
(* The game driven on from the end of a first turn: a team game of the     *)
(* default menu in which team 0 won a card and let the next one time out.  *)
(***************************************************************************)
InitAgain ==
    /\ \E o1 \in UpdateMenu(Default, {"MenuR"}) :
       \E o2 \in UpdateReadyingUp(o1.app, {"ActionA"}) :
       \E o3 \in UpdatePlaying(o2.app, {"ActionA"}, TurnSeconds - 1) :
       \E o4 \in UpdatePlaying(o3.app, {"MenuR"}, TurnSeconds - 1) :
       \E o5 \in UpdateTurnEnded(o4.app, {"ActionA"}) :
          /\ app = o5.app
          /\ draws = o2.drawn + o3.drawn
          /\ refills = o2.refilled + o3.refilled
    /\ NoRotation
    /\ NoLoad
    /\ NoClock
    /\ NoDevice

SpecAgain == InitAgain /\ [][Next]_vars

(***************************************************************************)
(* The game driven on from the end of the first turn of a game of two      *)
(* players without teams, in which player 0 asked, player 1 guessed one    *)
(* card and the next one timed out: both have that card on their piles.    *)
(* `draws` and `refills` count from this state on.                         *)
(***************************************************************************)
InitScores ==
    /\ \E o0 \in UpdateMenu(Default, {"MenuL"}) :
       \E o1 \in UpdateMenu(o0.app, {"MenuR"}) :
       \E o2 \in UpdateReadyingUp(o1.app, {"ActionA"}) :
       \E o3 \in UpdatePlaying(o2.app, {"ActionA"}, TurnSeconds - 1) :
       \E o4 \in UpdatePlaying(o3.app, {"MenuR"}, TurnSeconds - 1) :
       \E o5 \in UpdateTurnEnded(o4.app, {"ActionA"}) :
          app = o5.app
    /\ draws = 0
    /\ refills = 0
    /\ NoRotation
    /\ NoLoad
    /\ NoClock
    /\ NoDevice

SpecScores == InitScores /\ [][Next]_vars

(***************************************************************************)
(* One game on the clock.  start_time is taken when the turn starts and    *)
(* read at every tick of Playing; `clock` is the time since then, as far   *)
(* as the test `remaining < 0.0` can tell: none, less than the turn, the   *)
(* turn exactly, more than the turn.  The game is one of 2 parties, in     *)
(* either mode, and is followed until it is ended.                         *)
(***************************************************************************)
Times == {0} \cup Elapsed

InitClock ==
    /\ \E teams \in BOOLEAN :
       \E o \in UpdateMenu(Menu(MinPlayers, teams), {"MenuR"}) : app = o.app
    /\ draws = 0
    /\ refills = 0
    /\ NoRotation
    /\ NoLoad
    /\ NoClock
    /\ NoDevice

\* A tick of the game that goes on, after which the clock reads c.
ClockTick(o, c) ==
    /\ WithinBounds(o)
    /\ o.app.tag = "InGame"
    /\ app' = o.app
    /\ draws' = draws + o.drawn
    /\ refills' = refills + o.refilled
    /\ clock' = c
    /\ UNCHANGED <<tN, tCur, tSeen, load, dev>>

\* `start_time: Instant::now()` when the turn starts.
ReadyingUpClock ==
    /\ app.tag = "InGame"
    /\ app.turn.tag = "ReadyingUp"
    /\ \E input \in Inputs : \E o \in UpdateReadyingUp(app, input) :
          ClockTick(o, 0)

\* `start_time.elapsed()` is read; nothing in the arm writes start_time.
PlayingClock ==
    /\ app.tag = "InGame"
    /\ app.turn.tag = "Playing"
    /\ \E input \in Inputs : \E o \in UpdatePlaying(app, input, clock) :
          ClockTick(o, clock)

\* The review keeps the reading of the end of the turn; the confirm drops it.
TurnEndedClock ==
    /\ app.tag = "InGame"
    /\ app.turn.tag = "TurnEnded"
    /\ \E input \in Inputs : \E o \in UpdateTurnEnded(app, input) :
          ClockTick(o, IF o.app.tag = "InGame" /\ o.app.turn.tag = "TurnEnded"
                       THEN clock ELSE 0)

\* Time goes by during a turn, over any number of ticks that did not come.
TimePasses ==
    /\ app.tag = "InGame"
    /\ app.turn.tag = "Playing"
    /\ \E t \in Times : t > clock /\ clock' = t
    /\ UNCHANGED <<app, draws, refills, tN, tCur, tSeen, load, dev>>

NextClock ==
    \/ ReadyingUpClock
    \/ PlayingClock
    \/ TurnEndedClock
    \/ TimePasses

\* The tick of Playing at which no button is pressed.
PlayingIdleTick ==
    /\ app.tag = "InGame"
    /\ app.turn.tag = "Playing"
    /\ \E o \in UpdatePlaying(app, {}, clock) : ClockTick(o, clock)

\* The time keeps going by and the ticks of the frame loop keep coming: a
\* tick that does something with no button pressed is not put off for ever.
\* Nothing is asked of the buttons.
SpecClock ==
    /\ InitClock
    /\ [][NextClock]_vars
    /\ WF_vars(TimePasses)
    /\ WF_vars(PlayingIdleTick)

(***************************************************************************)
(* The rotation on its own: CurrentTurn::next iterated from the turn a new *)
(* game starts with, for every party count up to MaxN.                     *)
(***************************************************************************)
\* Number of turns in one cycle of the rotation.
Cycle(current_turn, num_players) ==
    IF current_turn.tag = "Team"
    THEN num_players
    ELSE num_players * (num_players - 1)

InitTurn ==
    /\ app = Default
    /\ draws = 0
    /\ refills = 0
    /\ tN \in MinPlayers..MaxN
    /\ \E teams \in BOOLEAN : tCur = FirstTurn(teams)
    /\ tSeen = <<tCur>>
    /\ NoLoad
    /\ NoClock
    /\ NoDevice

TurnAdvance ==
    /\ Len(tSeen) <= MaxCycles * Cycle(tCur, tN)
    /\ tCur' = next(tCur, tN)
    /\ tSeen' = Append(tSeen, tCur')
    /\ UNCHANGED <<app, draws, refills, tN, load, clock, dev>>

NextTurn == TurnAdvance

SpecTurn == InitTurn /\ [][NextTurn]_vars

(***************************************************************************)
(* The load of a word list on its own.                                     *)
(***************************************************************************)
\* Lines a word list is made of: blank ones, words with and without taboo
\* words, with whitespace around the fields, of two words, with no word.
RawLines ==
    { << >>,
      <<" ", " ">>,
      <<"a", ",", "x">>,
      <<"a", ",", "y">>,
      <<" ", "a", " ", ",", " ", "x", " ">>,
      <<"b">>,
      <<"b", ",", "x", ",", "y">>,
      <<"a", " ", "b", ",", "x">>,
      <<"a", "-", "b">>,
      <<",", "x">> }

RECURSIVE JoinLines(_)
\* The text of the file with these lines.
JoinLines(lines) ==
    IF Len(lines) = 0 THEN << >>
    ELSE IF Len(lines) = 1 THEN lines[1]
    ELSE lines[1] \o <<"\n">> \o JoinLines(Tail(lines))

Datasets ==
    { JoinLines(lines) :
      lines \in UNION { [1..n -> RawLines] : n \in 0..MaxLines } }

InitLoad ==
    /\ app = Default
    /\ draws = 0
    /\ refills = 0
    /\ NoRotation
    /\ \E text \in Datasets : load = Loading("parse", text)
    /\ NoClock
    /\ NoDevice

\* `let mut lines = WORDS.split(...)...collect()`.
LoadParse ==
    /\ load.pc = "parse"
    /\ load' = IF \E i \in 1..Len(FieldsOf(load.text)) :
                     UnwrapPanics(FieldsOf(load.text)[i])
               THEN [load EXCEPT !.pc = "panicked"]
               ELSE [load EXCEPT !.pc = "dedup", !.lines = Cards(load.text)]
    /\ UNCHANGED <<app, draws, refills, tN, tCur, tSeen, clock, dev>>

\* One pass of `for card in lines.drain(..)`.
LoadDedup ==
    /\ load.pc = "dedup"
    /\ load.lines # << >>
    /\ LET d == DedupOne(load.cards, Head(load.lines))
       IN  load' = [load EXCEPT !.lines = Tail(@),
                                !.cards = d.cards,
                                !.said = IF d.said = << >> THEN @
                                         ELSE Append(@, d.said)]
    /\ UNCHANGED <<app, draws, refills, tN, tCur, tSeen, clock, dev>>

\* After the loop: the values of the map, shuffled, are the pool.
LoadCollect ==
    /\ load.pc = "dedup"
    /\ load.lines = << >>
    /\ \E pool \in IntoValues(load.cards) :
          load' = [load EXCEPT !.pc = "done", !.pool = pool]
    /\ UNCHANGED <<app, draws, refills, tN, tCur, tSeen, clock, dev>>

NextLoad == LoadParse \/ LoadDedup \/ LoadCollect

SpecLoad == InitLoad /\ [][NextLoad]_vars

(***************************************************************************)
(* The device loop on its own: run_app of rg35xx.rs for one button.  The   *)
(* event thread sends the button's presses and releases over the channel   *)
(* at any moment; the loop copies pressed to previous, receives what has   *)
(* arrived, and then ticks the application.                                *)
(***************************************************************************)
InitDevice ==
    /\ app = Default
    /\ draws = 0
    /\ refills = 0
    /\ NoRotation
    /\ NoLoad
    /\ NoClock
    /\ dev = Device("update")

DeviceStep(d) ==
    /\ dev' = d
    /\ UNCHANGED <<app, draws, refills, tN, tCur, tSeen, load, clock>>

\* The button goes down: State::event sends the event `true`.
Press ==
    /\ ~dev.held
    /\ dev.presses < MaxPresses
    /\ DeviceStep([dev EXCEPT !.held = TRUE,
                              !.button_rx = Append(@, TRUE),
                              !.presses = @ + 1])

\* The button goes up: State::event sends the event `false`.
Release ==
    /\ dev.held
    /\ DeviceStep([dev EXCEPT !.held = FALSE,
                              !.button_rx = Append(@, FALSE)])

\* `input_state.update()`: previous takes the value of pressed.
InputUpdate ==
    /\ dev.pc = "update"
    /\ DeviceStep([dev EXCEPT !.pc = "recv",
                              !.input_state.previous = dev.input_state.pressed])

\* `while let Ok(event) = button_rx.try_recv()` with an event waiting:
\* `input_state.event(button, value)` sets pressed.
InputEvent ==
    /\ dev.pc = "recv"
    /\ dev.button_rx # << >>
    /\ DeviceStep([dev EXCEPT !.button_rx = Tail(@),
                              !.input_state.pressed = Head(dev.button_rx)])

\* try_recv finds the channel empty: the loop goes on to the application.
InputDrained ==
    /\ dev.pc = "recv"
    /\ dev.button_rx = << >>
    /\ DeviceStep([dev EXCEPT !.pc = "app"])

\* `app.update(&input_state, &mut frame)`: the tick acts on the button when
\* just_pressed is true; the loop then starts over.
AppUpdate ==
    /\ dev.pc = "app"
    /\ DeviceStep([dev EXCEPT !.pc = "update",
                              !.fired = IF ButtonState_just_pressed(dev.input_state)
                                        THEN @ + 1 ELSE @])

NextDevice ==
    Press \/ Release \/ InputUpdate \/ InputEvent \/ InputDrained \/ AppUpdate

SpecDevice == InitDevice /\ [][NextDevice]_vars

(***************************************************************************)
(* The rotation: claims C3, C4 and C5, checked under SpecTurn.             *)
(***************************************************************************)
\* Every ordered pair of two different players among num_players.
OrderedPairs(num_players) ==
    { Player(asker, askee) :
      <<asker, askee>> \in { q \in (0..(num_players - 1)) \X (0..(num_players - 1)) :
                             q[1] # q[2] } }

\* C3: player round-robin completeness.  From Player{0,1}, the first N*(N-1)
\* turns are N*(N-1) different pairs of different players, that is every
\* ordered pair once; the advance after them gives (0,1) again, and the
\* turns repeat from there.
PlayerRoundRobinComplete ==
    tCur.tag = "Player" =>
        LET period == tN * (tN - 1)
            first  == IF Len(tSeen) < period THEN Len(tSeen) ELSE period
        IN  /\ \A i \in 1..first : tSeen[i] \in OrderedPairs(tN)
            /\ \A i, j \in 1..first : i # j => tSeen[i] # tSeen[j]
            /\ Len(tSeen) >= period =>
                  { tSeen[i] : i \in 1..period } = OrderedPairs(tN)
            /\ Len(tSeen) > period => tSeen[period + 1] = Player(0, 1)
            /\ \A i \in 1..Len(tSeen) : i > period => tSeen[i] = tSeen[i - period]

\* C3 witness: a full cycle of at least three players was played and the
\* next turn was taken.
PlayerCycleDone ==
    /\ tCur.tag = "Player"
    /\ tN >= 3
    /\ Len(tSeen) = tN * (tN - 1) + 1

\* The k-th turn (from 0) of the order the specification gives: blocks of
\* gap 1, 2, ..., N-1, the asker running 0..N-1 inside each block.
GapOrder(k, num_players) ==
    LET asker == k % num_players
        gap   == ((k \div num_players) % (num_players - 1)) + 1
    IN  Player(asker, (asker + gap) % num_players)

\* The sequence of test_turn_increment, for four players.
ExpectedFor4 ==
    << Player(0, 1), Player(1, 2), Player(2, 3), Player(3, 0),
       Player(0, 2), Player(1, 3), Player(2, 0), Player(3, 1),
       Player(0, 3), Player(1, 0), Player(2, 1), Player(3, 2) >>

\* C4: player round-robin order.  From Player{0,1} the turns come in blocks
\* of ascending gap (askee - asker) mod N = 1, 2, ..., N-1, the asker running
\* 0, 1, ..., N-1 inside each block; for N = 4 the first twelve turns are
\* the sequence of test_turn_increment.
PlayerRoundRobinOrder ==
    tCur.tag = "Player" =>
        /\ \A i \in 1..Len(tSeen) : tSeen[i] = GapOrder(i - 1, tN)
        /\ (tN = 4 /\ Len(tSeen) >= 12) => SubSeq(tSeen, 1, 12) = ExpectedFor4

\* C4 witness: the twelve turns of four players were played.
FourPlayersPlayed ==
    /\ tCur.tag = "Player"
    /\ tN = 4
    /\ Len(tSeen) = 12

\* C5: team rotation.  From Team(0), the N turns of a cycle are the teams
\* 0, 1, ..., N-1, each once, and N advances give Team(0) again.
TeamRotation ==
    tCur.tag = "Team" =>
        /\ \A i \in 1..Len(tSeen) : tSeen[i] = Team((i - 1) % tN)
        /\ Len(tSeen) >= tN =>
              /\ { tSeen[i].team : i \in 1..tN } = 0..(tN - 1)
              /\ \A i, j \in 1..tN : i # j => tSeen[i] # tSeen[j]
        /\ Len(tSeen) > tN => tSeen[tN + 1] = Team(0)

\* C5 witness: a cycle of at least three teams was played and the next turn
\* was taken.
TeamCycleDone ==
    /\ tCur.tag = "Team"
    /\ tN >= 3
    /\ Len(tSeen) = tN + 1
    /\ tCur = Team(0)

(***************************************************************************)
(* The game: claims C1, C2 and C6 to C10, checked under Spec.              *)
(***************************************************************************)
\* The TabooApp value a is in a game whose turn is in the given phase.
InPhase(a, phase) == a.tag = "InGame" /\ a.turn.tag = phase

\* Number of entries of the sequence s that are the card.
Count(s, card) == Cardinality({ i \in 1..Len(s) : s[i] = card })

\* The cards of a turn's results, in order.
CardsOf(results) == [i \in 1..Len(results) |-> results[i][1]]

\* The cards of the Won entries of a turn's results, in order.
WonCardsOf(results) ==
    LET IsWon(entry) == won(entry[2])
    IN  CardsOf(SelectSeq(results, IsWon))

\* The results of the turn of a (none in ReadyingUp).
ResultsOf(a) == IF a.turn.tag = "ReadyingUp" THEN << >> ELSE a.turn.results

\* The card in play of a, as a sequence (empty outside Playing).
InPlayOf(a) == IF a.turn.tag = "Playing" THEN <<a.turn.card>> ELSE << >>

RECURSIVE SumWonBelow(_, _)
\* The total length of the won piles 0..n-1.
SumWonBelow(won_cards, n) ==
    IF n = 0 THEN 0 ELSE Len(won_cards[n - 1]) + SumWonBelow(won_cards, n - 1)

SumWon(game) == SumWonBelow(game.won_cards, game.num_players)

\* C1 as stated: draw pile, discard pile, won piles and the card in play add
\* up to the pool size in every state of a game.
CardCountConserved ==
    app.tag = "InGame" =>
        Len(app.game.deck) + Len(app.game.discards) + SumWon(app.game)
            + Len(InPlayOf(app)) = PoolSize

\* C1 as amended: with the cards of the turn's results counted too, and a card
\* won in a Player turn (pushed to the asker's and to the askee's pile)
\* counted once, the cards held add up to the pool size times one more than
\* the number of refills draw_card has made from all_cards.
CardCountWithResults ==
    app.tag = "InGame" =>
        /\ ~app.game.teams => SumWon(app.game) % 2 = 0
        /\ Len(app.game.deck) + Len(app.game.discards)
             + Len(ResultsOf(app)) + Len(InPlayOf(app))
             + (IF app.game.teams
                THEN SumWon(app.game) ELSE SumWon(app.game) \div 2)
           = PoolSize * (1 + refills)

\* C1 witness: a Player game that has refilled its deck and credited cards.
RefilledAndCredited ==
    /\ InPhase(app, "ReadyingUp")
    /\ ~app.game.teams
    /\ refills = 1
    /\ SumWon(app.game) > 0

\* Every container of a game, as one set of sequences of cards.
Held(a) ==
    {a.game.deck, a.game.discards, CardsOf(ResultsOf(a)), InPlayOf(a)}
        \cup { a.game.won_cards[i] : i \in DOMAIN a.game.won_cards }

\* C2 as stated: every card in the draw pile, the discard pile, a won pile or
\* in play is of the pool, and no word is in two of these or twice in one.
NoDuplicateCards ==
    app.tag = "InGame" =>
        \A card \in Words :
            Count(app.game.deck, card) + Count(app.game.discards, card)
              + Count(InPlayOf(app), card)
              + SumWonBelow([i \in DOMAIN app.game.won_cards |->
                               SelectSeq(app.game.won_cards[i],
                                         LAMBDA c : c = card)],
                            app.game.num_players) <= 1

\* C2 as amended: every card held is of the pool.  Until draw_card first
\* refills from all_cards, a word is either once in the draw pile, the discard
\* pile, the turn's results or in play, and in no won pile; or in none of
\* these, and once in one won pile (Team game), once in each of two won piles
\* (Player game).
NoDuplicateUntilRefill ==
    app.tag = "InGame" =>
        /\ \A s \in Held(app) : \A i \in 1..Len(s) : s[i] \in Words
        /\ refills = 0 =>
              \A card \in Words :
                  LET out   == Count(app.game.deck, card)
                                 + Count(app.game.discards, card)
                                 + Count(CardsOf(ResultsOf(app)), card)
                                 + Count(InPlayOf(app), card)
                      piles == { i \in DOMAIN app.game.won_cards :
                                 Count(app.game.won_cards[i], card) > 0 }
                  IN  /\ \A i \in piles : Count(app.game.won_cards[i], card) = 1
                      /\ \/ out = 1 /\ piles = {}
                         \/ out = 0 /\ Cardinality(piles) =
                                         IF app.game.teams THEN 1 ELSE 2

\* C2 witness: a Player game before any refill, one word won by two players
\* and another one discarded.
WonByBothBeforeRefill ==
    /\ InPhase(app, "ReadyingUp")
    /\ ~app.game.teams
    /\ refills = 0
    /\ app.game.discards # << >>
    /\ \E i, j \in DOMAIN app.game.won_cards :
          i # j /\ app.game.won_cards[i] # << >> /\ app.game.won_cards[j] # << >>

\* C6: in a Player game the turn is Player{asker, askee} with two different
\* players, both below num_players.
PlayerTurnValid ==
    (app.tag = "InGame" /\ ~app.game.teams) =>
        /\ app.current_turn.tag = "Player"
        /\ app.current_turn.asker # app.current_turn.askee
        /\ app.current_turn.asker \in 0..(app.game.num_players - 1)
        /\ app.current_turn.askee \in 0..(app.game.num_players - 1)

\* C6 witness: three players, after the asker wrapped around to the gap 2.
PlayerTurnWrapped ==
    /\ app.tag = "InGame"
    /\ app.game.num_players = 3
    /\ app.current_turn = Player(0, 2)

\* C7: the results of a turn that has ended are not empty.
ResultsNonEmpty ==
    InPhase(app, "TurnEnded") => Len(app.turn.results) >= 1

\* C7 witness: a turn ended on its first card.
EndedOnFirstCard ==
    InPhase(app, "TurnEnded") /\ Len(app.turn.results) = 1

\* C8: a turn ends only out of Playing, by the push of (card in play, Timeout)
\* that becomes the last of the results; the review leaves the results as
\* they are, and an entry pushed while the turn goes on is never Timeout.
LastResultIsTimeout ==
    [][ /\ InPhase(app', "TurnEnded") =>
              Last(app'.turn.results)[2] = "Timeout"
        /\ (InPhase(app', "TurnEnded") /\ ~InPhase(app, "TurnEnded")) =>
              /\ InPhase(app, "Playing")
              /\ app'.turn.results =
                    Append(app.turn.results, <<app.turn.card, "Timeout">>)
        /\ (InPhase(app', "TurnEnded") /\ InPhase(app, "TurnEnded")) =>
              app'.turn.results = app.turn.results
        /\ (InPhase(app', "Playing") /\ InPhase(app, "Playing")
              /\ app'.turn.results # app.turn.results) =>
              Last(app'.turn.results)[2] # "Timeout"
      ]_vars

\* C8 witness: a turn ended after a card was won.
EndedAfterWin ==
    /\ InPhase(app, "TurnEnded")
    /\ Len(app.turn.results) >= 2
    /\ app.turn.results[1][2] = "Won"

\* C9: in TurnEnded, 0 <= showing <= L-1 for the L results; PovRight alone
\* moves showing by +1, or leaves it at L-1; PovLeft alone moves it by -1, or
\* leaves it at 0.
ReviewCursorClamped ==
    InPhase(app, "TurnEnded") =>
        LET len     == Len(app.turn.results)
            showing == app.turn.showing
        IN  /\ 0 <= showing
            /\ showing <= len - 1
            /\ \A o \in UpdateTurnEnded(app, {"PovRight"}) :
                  /\ InPhase(o.app, "TurnEnded")
                  /\ o.app.turn.showing =
                        IF showing = len - 1 THEN len - 1 ELSE showing + 1
            /\ \A o \in UpdateTurnEnded(app, {"PovLeft"}) :
                  /\ InPhase(o.app, "TurnEnded")
                  /\ o.app.turn.showing =
                        IF showing = 0 THEN 0 ELSE showing - 1

\* C9 witness: the review of several results was moved back to the first.
ReviewAtFirst ==
    /\ InPhase(app, "TurnEnded")
    /\ Len(app.turn.results) >= 2
    /\ app.turn.showing = 0

\* C10: the confirm appends the Won cards of the results, in order, to the
\* won piles of asker and askee (Player turn) or of the team (Team turn) that
\* played, and leaves every other won pile as it was.
CreditOnConfirm ==
    [][ (InPhase(app, "TurnEnded") /\ InPhase(app', "ReadyingUp")) =>
            LET turn_won == WonCardsOf(app.turn.results)
                credited == IF app.current_turn.tag = "Team"
                            THEN {app.current_turn.team}
                            ELSE {app.current_turn.asker, app.current_turn.askee}
            IN  /\ (app.current_turn.tag = "Team") = app.game.teams
                /\ Cardinality(credited) = IF app.game.teams THEN 1 ELSE 2
                /\ DOMAIN app'.game.won_cards = DOMAIN app.game.won_cards
                /\ \A i \in DOMAIN app.game.won_cards :
                      app'.game.won_cards[i] =
                         IF i \in credited
                         THEN app.game.won_cards[i] \o turn_won
                         ELSE app.game.won_cards[i]
      ]_vars

\* C10 witness: three players, two of them credited and the third not.
TwoOfThreeCredited ==
    /\ InPhase(app, "ReadyingUp")
    /\ ~app.game.teams
    /\ app.game.num_players = 3
    /\ Cardinality({ i \in DOMAIN app.game.won_cards :
                     app.game.won_cards[i] # << >> }) = 2

(***************************************************************************)
(* The game: claims C11 and C15 to C19.                                    *)
(***************************************************************************)
\* The cards of the entries of a turn's results that are not Won, in order.
LostCardsOf(results) ==
    LET IsLost(entry) == ~won(entry[2])
    IN  CardsOf(SelectSeq(results, IsLost))

\* C11: the confirm appends the cards of the Discarded and Timeout entries of
\* the results, in their order, to the discards, and none of them to a won
\* pile: a won pile grows by the Won cards or not at all.
DiscardOnConfirm ==
    [][ (InPhase(app, "TurnEnded") /\ InPhase(app', "ReadyingUp")) =>
            /\ app'.game.discards =
                  app.game.discards \o LostCardsOf(app.turn.results)
            /\ \A i \in DOMAIN app.game.won_cards :
                  \/ app'.game.won_cards[i] = app.game.won_cards[i]
                  \/ app'.game.won_cards[i] =
                        app.game.won_cards[i] \o WonCardsOf(app.turn.results)
      ]_vars

\* C11 witness: a turn with a card won, one discarded and one timed out was
\* confirmed.
TwoDiscardedOneWon ==
    /\ InPhase(app, "ReadyingUp")
    /\ Len(app.game.discards) = 2
    /\ SumWon(app.game) > 0

(***************************************************************************)
(* The word list: claims C12, C13 and C14, checked under SpecLoad.         *)
(***************************************************************************)
\* The first of the cards that has this word.
FirstWith(cards, word) ==
    cards[CHOOSE i \in 1..Len(cards) :
            /\ cards[i].word = word
            /\ \A j \in 1..(i - 1) : cards[j].word # word]

\* C12: dedup on load.  The pool of a loaded word list has at most one card
\* per word, and that card has the taboo list of the first line of the file
\* with that word.
DedupFirstWins ==
    load.pc = "done" =>
        /\ \A i, j \in 1..Len(load.pool) :
              i # j => load.pool[i].word # load.pool[j].word
        /\ \A i \in 1..Len(load.pool) :
              /\ \E k \in 1..Len(Cards(load.text)) :
                    Cards(load.text)[k].word = load.pool[i].word
              /\ load.pool[i].taboo =
                    FirstWith(Cards(load.text), load.pool[i].word).taboo

\* C12 witness: two lines had the same word and different taboo lists, and a
\* card with that word is in the pool.
LoadedWithDuplicate ==
    /\ load.pc = "done"
    /\ \E i, j \in 1..Len(Cards(load.text)) : \E p \in 1..Len(load.pool) :
          /\ i < j
          /\ Cards(load.text)[i].word = Cards(load.text)[j].word
          /\ Cards(load.text)[i].taboo # Cards(load.text)[j].taboo
          /\ load.pool[p].word = Cards(load.text)[i].word

\* C13: multi-word exclusion.  No card of the pool has a word with a space or
\* a hyphen in it, and every word without one that a line of the file has is
\* the word of a card of the pool, whatever the lines before it were.
MultiWordExcluded ==
    load.pc = "done" =>
        /\ \A i \in 1..Len(load.pool) : ~multi_word(load.pool[i].word)
        /\ \A k \in 1..Len(Cards(load.text)) :
              ~multi_word(Cards(load.text)[k].word) =>
                  \E i \in 1..Len(load.pool) :
                      load.pool[i].word = Cards(load.text)[k].word

\* C13 witness: a word with a space or a hyphen came in two lines, and a
\* line after them gave a card of the pool.
LoadedAfterMultiWord ==
    /\ load.pc = "done"
    /\ \E i, j, k \in 1..Len(Cards(load.text)) : \E p \in 1..Len(load.pool) :
          /\ i < j /\ j < k
          /\ multi_word(Cards(load.text)[i].word)
          /\ Cards(load.text)[j].word = Cards(load.text)[i].word
          /\ load.pool[p] = Cards(load.text)[k]

\* C14: fatal load error.  A word list with a line that is not blank and has
\* no word before its first comma is not loaded: no pool comes out of it.
LoadFailsWithoutWord ==
    (\E k \in 1..Len(FieldsOf(load.text)) :
        Head(FieldsOf(load.text)[k]) = << >>) => load.pc # "done"

\* C15: draw_card is infallible.  In every state of a game, whatever was
\* played before, no outcome of a draw_card call is the panic of the final
\* pop().unwrap(), and no earlier call has panicked.
DrawCardInfallible ==
    /\ app.tag # "Panicked"
    /\ app.tag = "InGame" => \A d \in draw_card(app.game) : d.ok

\* C15 witness: a card is in play that was drawn when deck and discards were
\* both empty.
DrawnFromRefill ==
    /\ InPhase(app, "Playing")
    /\ refills = 1
    /\ app.game.discards = << >>

\* C16: the party count is at least 2 in the menu and in a game.  It starts
\* at 2; PovUp alone adds exactly 1, whatever the count is; PovDown alone
\* subtracts 1, except at 2, which it leaves.
PartyCountAtLeastTwo ==
    /\ Default.players = 2
    /\ app.tag = "InGame" => app.game.num_players >= 2
    /\ app.tag = "Menu" =>
          /\ app.players >= 2
          /\ UpdateMenu(app, {"PovUp"}) =
                { Outcome(Menu(app.players + 1, app.teams), 0, 0) }
          /\ UpdateMenu(app, {"PovDown"}) =
                { Outcome(Menu(IF app.players = 2 THEN 2 ELSE app.players - 1,
                               app.teams), 0, 0) }

\* C16 witness: the menu after PovUp, at 3 players, where PovDown subtracts 1
\* and PovUp adds 1 again.
MenuAtThreePlayers == app.tag = "Menu" /\ app.players = 3

\* The won piles of a game nobody has scored in: one per party, all empty.
NoCardsWon(game) ==
    /\ DOMAIN game.won_cards = 0..(game.num_players - 1)
    /\ \A i \in DOMAIN game.won_cards : game.won_cards[i] = << >>

\* C17: MenuR in the menu, with whatever else is pressed on that tick, makes
\* a game in ReadyingUp, at Team(0) in team mode and at Player{0, 1} in
\* player mode, with no discards and one empty won pile per party; MenuR
\* alone makes it for the players and the mode of the menu.  A game in which
\* no card was drawn yet is as MenuR made it.
StartCreatesSession ==
    /\ app.tag = "Menu" =>
          /\ \A input \in Inputs : \A o \in UpdateMenu(app, input) :
                just_pressed(input, "MenuR") =>
                    /\ InPhase(o.app, "ReadyingUp")
                    /\ o.app.current_turn =
                          (IF o.app.game.teams THEN Team(0) ELSE Player(0, 1))
                    /\ o.app.game.discards = << >>
                    /\ NoCardsWon(o.app.game)
          /\ \A o \in UpdateMenu(app, {"MenuR"}) :
                /\ o.app.game.num_players = app.players
                /\ o.app.game.teams = app.teams
    /\ (app.tag = "InGame" /\ draws = 0) =>
          /\ InPhase(app, "ReadyingUp")
          /\ app.current_turn =
                (IF app.game.teams THEN Team(0) ELSE Player(0, 1))
          /\ app.game.discards = << >>
          /\ NoCardsWon(app.game)

\* C17 witness: a game of 3 players in player mode was started and nothing
\* was drawn in it yet.
StartedThreePlayers ==
    /\ app.tag = "InGame"
    /\ draws = 0
    /\ app.game.num_players = 3
    /\ ~app.game.teams

\* A game as new: in ReadyingUp at its first turn, nothing won or discarded,
\* the whole pool in the deck.
FreshSession(a) ==
    /\ InPhase(a, "ReadyingUp")
    /\ a.current_turn = (IF a.game.teams THEN Team(0) ELSE Player(0, 1))
    /\ NoCardsWon(a.game)
    /\ a.game.discards = << >>
    /\ a.game.deck \in Shuffles(Pool)

\* C18: ending the game discards it.  From ReadyingUp, whatever the game has
\* in its piles and wherever its rotation is, ActionB leads to the menu and
\* MenuR from there to a game as new; and a game that follows an ended one
\* is as new until a card is drawn in it.
RestartIsFresh ==
    /\ InPhase(app, "ReadyingUp") =>
          \A o \in UpdateReadyingUp(app, {"ActionB"}) :
              /\ o.app.tag = "Menu"
              /\ \A n \in UpdateMenu(o.app, {"MenuR"}) : FreshSession(n.app)
    /\ (app.tag = "InGame" /\ draws = 0) => FreshSession(app)

\* C18 witness: the game with a card won and a card discarded was ended, the
\* mode changed in the menu, and a game started in which no card was drawn yet.
RestartedSession ==
    /\ app.tag = "InGame"
    /\ draws = 0
    /\ ~app.game.teams

\* The arm of `match turn` that a game in this phase runs.
UpdateInGame(a, input, elapsed) ==
    IF a.turn.tag = "ReadyingUp" THEN UpdateReadyingUp(a, input)
    ELSE IF a.turn.tag = "Playing" THEN UpdatePlaying(a, input, elapsed)
    ELSE UpdateTurnEnded(a, input)

\* C19: while a game goes on, the party count, the mode and the number of won
\* piles stay.  Every tick of ReadyingUp, Playing and TurnEnded that leaves
\* the game running, whatever is pressed and whatever the clock says, leaves
\* num_players, teams and the indices of won_cards as they are.
SessionConfigFrozen ==
    [][ (app.tag = "InGame" /\ app'.tag = "InGame") =>
            /\ app'.game.num_players = app.game.num_players
            /\ app'.game.teams = app.game.teams
            /\ DOMAIN app'.game.won_cards = DOMAIN app.game.won_cards
            /\ DOMAIN app.game.won_cards = 0..(app.game.num_players - 1)
      ]_vars

\* C19 witness: a game of 3 players has gone through ReadyingUp, Playing and
\* TurnEnded and is in its second turn with a card won.
SecondTurnOfThree ==
    /\ InPhase(app, "ReadyingUp")
    /\ app.game.num_players = 3
    /\ SumWon(app.game) > 0

(***************************************************************************)
(* The rotation from any pair of two players: claim C20.                   *)
(***************************************************************************)
InitAnyTurn ==
    /\ app = Default
    /\ draws = 0
    /\ refills = 0
    /\ tN \in MinPlayers..MaxN
    /\ tCur \in OrderedPairs(tN)
    /\ tSeen = <<tCur>>
    /\ NoLoad
    /\ NoClock
    /\ NoDevice

SpecAnyTurn == InitAnyTurn /\ [][NextTurn]_vars

\* The rule of the rotation in modular arithmetic.
NextByGap(asker, askee, N) ==
    LET gap    == (askee + N - asker) % N
        asker1 == (asker + 1) % N
        askee1 == IF asker1 # 0 THEN (askee + 1) % N
                  ELSE IF gap + 1 = N THEN 1 ELSE gap + 1
    IN  Player(asker1, askee1)

\* C20: the advance in player mode is the rule in modular arithmetic.  For
\* every party count and every start at two different players, reached from
\* Player{0, 1} or not, each turn is followed by the turn the rule gives.
PlayerAdvanceIsRule ==
    \A i \in 1..(Len(tSeen) - 1) :
        tSeen[i + 1] = NextByGap(tSeen[i].asker, tSeen[i].askee, tN)

\* C20 witness: started at Player{3, 1} among 4 players, the rotation has gone
\* past the wrap of the asker.
AdvancedFromThreeOne ==
    /\ tN = 4
    /\ Len(tSeen) >= 2
    /\ tSeen[1] = Player(3, 1)

(***************************************************************************)
(* The game: claims C21 to C30.                                            *)
(***************************************************************************)
\* The parties that play in a turn.
PartiesOf(current_turn) ==
    IF current_turn.tag = "Team"
    THEN {current_turn.team}
    ELSE {current_turn.asker, current_turn.askee}

\* C21: ActionA in TurnEnded, with whatever else is pressed on that tick,
\* leads to ReadyingUp with current_turn advanced once, every result of the
\* turn gone to the won piles of the parties that played it (not of those of
\* the turn that follows) or to the discards.
ConfirmCreditsThenAdvances ==
    InPhase(app, "TurnEnded") =>
        \A input \in Inputs : \A o \in UpdateTurnEnded(app, input) :
            just_pressed(input, "ActionA") =>
                /\ InPhase(o.app, "ReadyingUp")
                /\ o.app.current_turn =
                      next(app.current_turn, app.game.num_players)
                /\ o.app.game.discards =
                      app.game.discards \o LostCardsOf(app.turn.results)
                /\ \A i \in DOMAIN app.game.won_cards :
                      o.app.game.won_cards[i] =
                         IF i \in PartiesOf(app.current_turn)
                         THEN app.game.won_cards[i] \o
                              WonCardsOf(app.turn.results)
                         ELSE app.game.won_cards[i]
                /\ o.app.game.deck = app.game.deck

\* C21 witness: the first turn of a team game was confirmed: team 0 has its
\* card, team 1, whose turn it is now, has none.
CreditedBeforeAdvance ==
    /\ InPhase(app, "ReadyingUp")
    /\ app.current_turn = Team(1)
    /\ app.game.won_cards[0] # << >>
    /\ app.game.won_cards[1] = << >>

\* C22: current_turn changes at the step from TurnEnded to ReadyingUp only.
\* A tick of a game, whatever is pressed and whatever the clock says, that
\* goes on with another current_turn starts in TurnEnded and ends in
\* ReadyingUp; the ticks that start, resolve a card, end the turn or move the
\* review keep current_turn.
TurnChangesOnConfirmOnly ==
    [][ (app.tag = "InGame" /\ app'.tag = "InGame"
           /\ app'.current_turn # app.current_turn) =>
            /\ InPhase(app, "TurnEnded")
            /\ InPhase(app', "ReadyingUp")
      ]_vars

\* C22 witness: the first turn of a game was started, a card resolved, the
\* turn ended and the review moved to the first entry, and current_turn is
\* the one the game started with.
ReviewedInFirstTurn ==
    /\ InPhase(app, "TurnEnded")
    /\ draws = 2
    /\ Len(app.turn.results) = 2
    /\ app.turn.showing = 0
    /\ app.current_turn = (IF app.game.teams THEN Team(0) ELSE Player(0, 1))

\* C23: the start of a turn.  ActionA in ReadyingUp, without ActionB, leads
\* to Playing with no results yet and with the card of one draw_card call:
\* deck and discards together have one card less, or the pool less one more
\* after a refill; the won piles and current_turn are as they were.
StartDrawsOneCard ==
    InPhase(app, "ReadyingUp") =>
        \A input \in Inputs : \A o \in UpdateReadyingUp(app, input) :
            (just_pressed(input, "ActionA") /\ ~just_pressed(input, "ActionB")) =>
                /\ InPhase(o.app, "Playing")
                /\ o.app.turn.results = << >>
                /\ o.app.turn.card \in Words
                /\ o.drawn = 1
                /\ \E d \in draw_card(app.game) :
                      o.app.game = d.game /\ o.app.turn.card = d.card
                /\ deck_size(o.app.game) + 1 =
                      deck_size(app.game) + o.refilled * PoolSize
                /\ o.app.game.won_cards = app.game.won_cards
                /\ o.app.current_turn = app.current_turn

\* C23 witness: the second turn of a game was started, with a card won in the
\* first: a card is in play, there are no results, and the turn is the second.
SecondTurnStarted ==
    /\ InPhase(app, "Playing")
    /\ app.turn.results = << >>
    /\ SumWon(app.game) > 0
    /\ app.current_turn # (IF app.game.teams THEN Team(0) ELSE Player(0, 1))

\* What ActionA ("Won") or ActionB ("Discarded") makes of a Playing state:
\* still Playing, the results with the old card and this result at the end,
\* the card and the game of one draw_card call.
Resolved(a, o, card_result) ==
    /\ InPhase(o.app, "Playing")
    /\ o.app.turn.results =
          a.turn.results \o << <<a.turn.card, card_result>> >>
    /\ o.drawn = 1
    /\ \E d \in draw_card(a.game) :
          o.app.game = d.game /\ o.app.turn.card = d.card
    /\ deck_size(o.app.game) + 1 = deck_size(a.game) + o.refilled * PoolSize

\* C24: correct and pass.  In Playing, on a tick that does not end the turn
\* (the time is not over and MenuR is not pressed), ActionA appends the card
\* in play as Won, and ActionB without ActionA appends it as Discarded; both
\* put one newly drawn card in play, keep the earlier results and stay in
\* Playing.
CorrectAndPass ==
    InPhase(app, "Playing") =>
        \A input \in Inputs : \A elapsed \in Elapsed :
        \A o \in UpdatePlaying(app, input, elapsed) :
            (Remaining(elapsed) >= 0 /\ ~just_pressed(input, "MenuR")) =>
                /\ just_pressed(input, "ActionA") => Resolved(app, o, "Won")
                /\ (just_pressed(input, "ActionB")
                      /\ ~just_pressed(input, "ActionA")) =>
                          Resolved(app, o, "Discarded")

\* C24 witness: a card was won and the next one passed; a third is in play.
WonThenPassed ==
    /\ InPhase(app, "Playing")
    /\ Len(app.turn.results) = 2
    /\ app.turn.results[1][2] = "Won"
    /\ app.turn.results[2][2] = "Discarded"

\* What the end of a turn makes of a Playing state: TurnEnded with the
\* results and the card in play as Timeout at their end, the last entry shown,
\* the game as it was and no card drawn.
Ended(a, o) ==
    /\ InPhase(o.app, "TurnEnded")
    /\ o.app.turn.results = a.turn.results \o << <<a.turn.card, "Timeout">> >>
    /\ o.app.turn.showing = Len(a.turn.results)
    /\ o.app.game = a.game
    /\ o.app.current_turn = a.current_turn
    /\ o.drawn = 0

\* C25 as stated: in Playing, a tick with remaining <= 0, 0 included, or
\* with MenuR pressed ends the turn; a tick with remaining > 0 and without
\* MenuR stays in Playing.
TurnEndsAtZeroOrBelow ==
    InPhase(app, "Playing") =>
        \A input \in Inputs : \A elapsed \in Elapsed :
        \A o \in UpdatePlaying(app, input, elapsed) :
            IF Remaining(elapsed) <= 0 \/ just_pressed(input, "MenuR")
            THEN Ended(app, o)
            ELSE InPhase(o.app, "Playing")

\* C25 as the code has it: in Playing, a tick with remaining < 0 or with
\* MenuR pressed ends the turn; a tick with remaining >= 0, 0 included, and
\* without MenuR stays in Playing.
TurnEndsBelowZero ==
    InPhase(app, "Playing") =>
        \A input \in Inputs : \A elapsed \in Elapsed :
        \A o \in UpdatePlaying(app, input, elapsed) :
            IF Remaining(elapsed) < 0 \/ just_pressed(input, "MenuR")
            THEN Ended(app, o)
            ELSE InPhase(o.app, "Playing")

\* C25 witness: a turn with two cards resolved was ended on the third, and
\* the review shows the last of the three results.
EndedWithThreeResults ==
    /\ InPhase(app, "TurnEnded")
    /\ Len(app.turn.results) = 3
    /\ app.turn.showing = 2
    /\ app.turn.results[3][2] = "Timeout"

\* C26: every turn ends.  With the time going by and the ticks coming, a
\* game in Playing gets to TurnEnded, whatever is pressed on the way and
\* however long the time between two ticks.
PlayingEnds == InPhase(app, "Playing") ~> InPhase(app, "TurnEnded")

\* C26 witness: a turn in which a card was resolved has ended with the time
\* over.
EndedOverTime ==
    /\ InPhase(app, "TurnEnded")
    /\ clock > TurnSeconds
    /\ Len(app.turn.results) >= 2

\* C27: reshuffle on draw.  In every state of a game, a draw_card call with
\* an empty deck and discards that are not empty leaves no discards, and the
\* deck with the card returned has the cards of the discards, each as often;
\* a call with a deck that is not empty leaves the discards alone, returns
\* the last card of the deck and leaves the rest of it.
ReshuffleOnDraw ==
    app.tag = "InGame" =>
        \A d \in draw_card(app.game) :
            /\ (app.game.deck = << >> /\ app.game.discards # << >>) =>
                  /\ d.ok
                  /\ d.refilled = 0
                  /\ d.game.discards = << >>
                  /\ \A card \in Words :
                        Count(d.game.deck \o <<d.card>>, card) =
                           Count(app.game.discards, card)
            /\ app.game.deck # << >> =>
                  /\ d.ok
                  /\ d.refilled = 0
                  /\ d.game.discards = app.game.discards
                  /\ d.card = Last(app.game.deck)
                  /\ d.game.deck = Front(app.game.deck)

\* C27 witness: more cards were drawn than the pool has, none of them after a
\* refill: the card in play came with the discards of the turn before.
DrawnFromDiscards ==
    /\ InPhase(app, "Playing")
    /\ draws > PoolSize
    /\ refills = 0
    /\ app.game.discards = << >>

\* A state in which a draw_card call refills the deck: a phase that draws,
\* with deck and discards both empty.
DrawWouldRefill ==
    /\ InPhase(app, "ReadyingUp") \/ InPhase(app, "Playing")
    /\ app.game.deck = << >>
    /\ app.game.discards = << >>

\* Whether some won pile has the card.
InWonPile(game, card) ==
    \E i \in DOMAIN game.won_cards : Count(game.won_cards[i], card) > 0

\* C28 as stated: when draw_card refills the deck, every card of the pool is
\* in a won pile or is the card in play.
RefillWhenAllWonOrInPlay ==
    DrawWouldRefill =>
        \A card \in Words :
            \/ InWonPile(app.game, card)
            \/ Count(InPlayOf(app), card) > 0

\* C28 as the code has it: when draw_card refills the deck, every card of the
\* pool is in a won pile, in the results of the turn that is played, or is
\* the card in play.
RefillWhenAllWonOrInTurn ==
    DrawWouldRefill =>
        \A card \in Words :
            \/ InWonPile(app.game, card)
            \/ Count(CardsOf(ResultsOf(app)), card) > 0
            \/ Count(InPlayOf(app), card) > 0

\* C28 witness: the deck was refilled in a turn with cards in its results and
\* no card in any won pile.
RefilledWithResults ==
    /\ InPhase(app, "Playing")
    /\ refills = 1
    /\ app.turn.results # << >>
    /\ SumWon(app.game) = 0

\* C29 as stated: deck_size() is |deck| + |discards|, and in every state of
\* a game that is the number of cards of the pool that are in no won pile and
\* not in play.
DeckSizeIsNotWonNotInPlay ==
    app.tag = "InGame" =>
        /\ deck_size(app.game) = Len(app.game.deck) + Len(app.game.discards)
        /\ deck_size(app.game) =
              Cardinality({ card \in Words :
                              /\ ~InWonPile(app.game, card)
                              /\ Count(InPlayOf(app), card) = 0 })

\* C29 as the code has it: deck_size() is |deck| + |discards|, and in every
\* state of a game whose deck was not refilled from the pool that is the
\* number of cards of the pool that are in no won pile, not in the results of
\* the turn and not in play.
DeckSizeIsNotHeldInTurn ==
    app.tag = "InGame" =>
        /\ deck_size(app.game) = Len(app.game.deck) + Len(app.game.discards)
        /\ refills = 0 =>
              deck_size(app.game) =
                 Cardinality({ card \in Words :
                                 /\ ~InWonPile(app.game, card)
                                 /\ Count(CardsOf(ResultsOf(app)), card) = 0
                                 /\ Count(InPlayOf(app), card) = 0 })

\* C29 witness: in the second turn, before any refill, a card is in the
\* discards and another in play.
SecondTurnWithDiscards ==
    /\ InPhase(app, "Playing")
    /\ refills = 0
    /\ app.game.discards # << >>
    /\ deck_size(app.game) = Len(app.game.discards)

\* The buttons of C30: those with no meaning in the phase.
Meaningless(phase) ==
    IF phase = "ReadyingUp" THEN {"PovLeft", "PovRight", "MenuR"}
    ELSE IF phase = "Playing" THEN {"PovLeft", "PovRight"}
    ELSE {"ActionB", "MenuR"}

\* C30: buttons without a meaning in the phase are ignored.  In every state
\* of a game, a tick with any of them pressed, and no other button, gives the
\* state as it was: game, turn with results and review position,
\* current_turn; no card is drawn and nothing panics.  In Playing this is so
\* while the time is not over; once it is, the tick ends the turn with or
\* without them.
MeaninglessIgnored ==
    app.tag = "InGame" =>
        \A input \in SUBSET Meaningless(app.turn.tag) : \A elapsed \in Elapsed :
            /\ input \in Inputs =>
                  UpdateInGame(app, input, elapsed) =
                     UpdateInGame(app, {}, elapsed)
            /\ (input \in Inputs
                  /\ (app.turn.tag = "Playing" => Remaining(elapsed) >= 0)) =>
                      UpdateInGame(app, input, elapsed) = { Outcome(app, 0, 0) }

\* C30 witness: the review of a turn of two cards, which ActionB and MenuR
\* together leave as it is.
ReviewIgnoresCancel ==
    /\ InPhase(app, "TurnEnded")
    /\ Len(app.turn.results) = 2
    /\ UpdateTurnEnded(app, {"ActionB", "MenuR"}) = { Outcome(app, 0, 0) }


(***************************************************************************)
(* The device loop: claim C31, checked under SpecDevice.                   *)
(***************************************************************************)
\* Every press made so far has been received and ticked: the loop is back at
\* its start and the channel is empty.
AllPressesTicked == dev.pc = "update" /\ dev.button_rx = << >>

\* C31: every physical press of the button makes just_pressed true on exactly
\* one tick: once every press has been received and ticked, the number of
\* ticks that saw just_pressed equals the number of presses, in every
\* interleaving of the presses and releases with the loop.
EveryPressFiresOnce == AllPressesTicked => dev.fired = dev.presses

(***************************************************************************)
(* Buttons that coincide on one tick of Playing: claim C32.                 *)
(***************************************************************************)
\* The buttons that act in Playing, in every combination.
PlayingButtons == SUBSET {"MenuR", "ActionA", "ActionB"}

\* C32: a tick in Playing resolves at most one outcome and draws at most one
\* card.  With the time over or MenuR pressed, whatever of ActionA and
\* ActionB is pressed with it, only the Timeout entry is appended and no card
\* is drawn; with ActionA and ActionB pressed and the turn not ending, only
\* the Won entry is appended and one card is drawn.
OneOutcomePerTick ==
    InPhase(app, "Playing") =>
        \A input \in PlayingButtons : \A elapsed \in Elapsed :
        \A o \in UpdatePlaying(app, input, elapsed) :
            /\ o.drawn <= 1
            /\ InPhase(o.app, "Playing") \/ InPhase(o.app, "TurnEnded")
            /\ Len(o.app.turn.results) <= Len(app.turn.results) + 1
            /\ (Remaining(elapsed) < 0 \/ just_pressed(input, "MenuR")) =>
                  Ended(app, o)
            /\ (/\ Remaining(elapsed) >= 0
                /\ ~just_pressed(input, "MenuR")
                /\ just_pressed(input, "ActionA")
                /\ just_pressed(input, "ActionB")) => Resolved(app, o, "Won")

\* C32 witness: in a turn with one card resolved, ActionA and ActionB on the
\* same tick have a Won outcome within the bounds, and MenuR with both of
\* them on a tick past the time has the Timeout outcome.
CorrectAndPassCoincide ==
    /\ InPhase(app, "Playing")
    /\ Len(app.turn.results) = 1
    /\ \E o \in UpdatePlaying(app, {"ActionA", "ActionB"}, TurnSeconds - 1) :
          WithinBounds(o) /\ Resolved(app, o, "Won")
    /\ \E o \in UpdatePlaying(app, {"MenuR", "ActionA", "ActionB"},
                               TurnSeconds + 1) :
          WithinBounds(o) /\ Ended(app, o)

(***************************************************************************)
(* The shape of the results of a turn: claim C33.                          *)
(***************************************************************************)
\* The places of the results whose entry is Timeout.
TimeoutsIn(results) == { i \in 1..Len(results) : results[i][2] = "Timeout" }

\* C33: Timeout occurs in the results only as the last entry of the results
\* of TurnEnded.  In Playing every entry is Won or Discarded; in TurnEnded
\* every entry but the last is Won or Discarded, the last is Timeout, and so
\* there is exactly one Timeout.
TimeoutOnlyLast ==
    /\ InPhase(app, "Playing") =>
          \A i \in 1..Len(app.turn.results) :
              app.turn.results[i][2] \in {"Won", "Discarded"}
    /\ InPhase(app, "TurnEnded") =>
          LET results == app.turn.results
          IN  /\ \A i \in 1..(Len(results) - 1) :
                    results[i][2] \in {"Won", "Discarded"}
              /\ TimeoutsIn(results) = {Len(results)}
              /\ Cardinality(TimeoutsIn(results)) = 1

\* C33 witness: a turn ended after a card was passed and the next one won.
EndedAfterPassAndWin ==
    /\ InPhase(app, "TurnEnded")
    /\ Len(app.turn.results) = 3
    /\ app.turn.results[1][2] = "Discarded"
    /\ app.turn.results[2][2] = "Won"

(***************************************************************************)
(* The end of the game: claims C34 and C35, checked under SpecAgain, whose *)
(* first state is a game.                                                  *)
(***************************************************************************)
\* C34: the game is replaced by the menu only out of ReadyingUp.  A tick of
\* Playing leads to Playing or to TurnEnded, a tick of TurnEnded to TurnEnded
\* or, by the confirm, to ReadyingUp: a turn that has started is ended and
\* confirmed before the game can be ended.
MenuOnlyFromReadyingUp ==
    [][ /\ (app.tag = "InGame" /\ app'.tag = "Menu") =>
              InPhase(app, "ReadyingUp")
        /\ InPhase(app, "Playing") =>
              InPhase(app', "Playing") \/ InPhase(app', "TurnEnded")
        /\ InPhase(app, "TurnEnded") =>
              InPhase(app', "TurnEnded") \/ InPhase(app', "ReadyingUp")
      ]_vars

\* C34 witness: the game of the first state was replaced by the menu.
GameReplacedByMenu == app.tag = "Menu"

\* C35: ending the game returns to the menu of the game's own party count
\* and mode.  In ReadyingUp, every tick with ActionB pressed, whatever is
\* pressed with it, leads to Menu {players: num_players, teams: teams} of
\* the game that is ended, not to the menu of TabooApp::default().
EndGameKeepsConfig ==
    InPhase(app, "ReadyingUp") =>
        \A input \in Inputs :
            just_pressed(input, "ActionB") =>
                \A o \in UpdateReadyingUp(app, input) :
                    o.app = Menu(app.game.num_players, app.game.teams)

\* C35 witness: a game of MaxPlayers players without teams, which differs
\* from the default in both, is in ReadyingUp with a card won, and ActionB
\* leads from it to the menu of MaxPlayers players without teams.
EndOfGameNotDefault ==
    /\ InPhase(app, "ReadyingUp")
    /\ app.game.num_players = MaxPlayers
    /\ ~app.game.teams
    /\ SumWon(app.game) > 0
    /\ \E o \in UpdateReadyingUp(app, {"ActionB"}) :
          /\ WithinBounds(o)
          /\ o.app = Menu(MaxPlayers, FALSE)
          /\ o.app # Default

(***************************************************************************)
(* The won piles and the indexes into them: claim C36, checked under       *)
(* SpecScores, whose first state has cards on two piles.                   *)
(***************************************************************************)
\* The indexes into won_cards that a CurrentTurn holds.
IndexesOf(current_turn) ==
    IF current_turn.tag = "Team"
    THEN {current_turn.team}
    ELSE {current_turn.asker, current_turn.askee}

\* Whether the sequence s is the start of the sequence t.
IsPrefix(s, t) == Len(s) <= Len(t) /\ SubSeq(t, 1, Len(s)) = s

\* There is one won pile for each of the num_players parties, and every
\* index that current_turn holds is the index of one of them.
IndexesInRange(a) ==
    /\ a.tag # "Panicked"
    /\ a.tag = "InGame" =>
          /\ DOMAIN a.game.won_cards = 0..(a.game.num_players - 1)
          /\ \A i \in IndexesOf(a.current_turn) :
                0 <= i /\ i < a.game.num_players

\* C36: scores never decrease and crediting never indexes out of range.
\* On every step of a game each won pile is kept as the start of what it
\* becomes, the piles change only on the confirm of TurnEnded, and in every
\* state every index held in current_turn is below num_players, the number
\* of won piles.
ScoresOnlyGrow ==
    [][ /\ IndexesInRange(app)
        /\ IndexesInRange(app')
        /\ (app.tag = "InGame" /\ app'.tag = "InGame") =>
              /\ \A p \in DOMAIN app.game.won_cards :
                    IsPrefix(app.game.won_cards[p], app'.game.won_cards[p])
              /\ app'.game.won_cards # app.game.won_cards =>
                    InPhase(app, "TurnEnded") /\ InPhase(app', "ReadyingUp")
      ]_vars

\* C36 witness: a pile that held one card in the first state holds three:
\* it grew by two cards won in a later turn of the same game.
PileGrewTwice ==
    /\ InPhase(app, "ReadyingUp")
    /\ \E p \in DOMAIN app.game.won_cards : Len(app.game.won_cards[p]) = 3

(***************************************************************************)
(* Start and end of the game on one tick of ReadyingUp: claim C37.         *)
(***************************************************************************)
\* C37: when ActionA and ActionB are pressed on the same tick of ReadyingUp,
\* the end of the game wins.  The tick draws one card for the turn that
\* starts and then replaces the game, that card with it, by the menu: it
\* has an outcome, and every outcome is the menu of the game's party count and
\* mode with one card drawn, never Playing.
EndGameWinsOverStart ==
    InPhase(app, "ReadyingUp") =>
        LET outcomes == UpdateReadyingUp(app, {"ActionA", "ActionB"})
        IN  /\ outcomes # {}
            /\ \A o \in outcomes :
                  /\ ~InPhase(o.app, "Playing")
                  /\ o.app = Menu(app.game.num_players, app.game.teams)
                  /\ o.drawn = 1

\* C37 witness: after a turn in which a card was drawn, ActionA and ActionB
\* on the same tick of ReadyingUp draw one more card, within the bound, and
\* end in the menu.
StartAndEndCoincide ==
    /\ InPhase(app, "ReadyingUp")
    /\ draws >= 1
    /\ \E o \in UpdateReadyingUp(app, {"ActionA", "ActionB"}) :
          WithinBounds(o) /\ o.app.tag = "Menu" /\ o.drawn = 1
=============================================================================
